---- MODULE Spec2Model ----
(***************************************************************************)
(* A model of preprocess.py, the table generator of miniutf: the table     *)
(* serializer (bytes_needed, dump_table), the two-level trie packer        *)
(* (try_split, split_array, make_direct_map, make_translation_map), the    *)
(* DUCET hash table builder (make_collation_element_table) and the         *)
(* decomposition / composition packers of the module body.                 *)
(*                                                                         *)
(* Python lists are sequences; a Python index i is the position i + 1.     *)
(* Each part of the generator has its own specification, which draws the   *)
(* part's input in its initial state and holds the other parts idle.       *)
(***************************************************************************)
EXTENDS Integers, Sequences, FiniteSets, TLC

VARIABLES
    pc,             \* where the generator stands: "start", then a result
    table,          \* dump_table: the data to dump
    dumped,         \* dump_table: the declared type and the size
    out_map,        \* make_direct_map: func(data[cp]) or 0, per code point
    direct,         \* make_direct_map: the emitted tables and accessor
    data,           \* parse_data: the record of each code point of UnicodeData
    trans,          \* make_translation_map: the emitted tables and accessor
    exclusions,     \* parse_data: the code points of CompositionExclusions
    decomposition_map,      \* code point -> its full, reordered decomposition
    composition_map,        \* (first, second) -> the code point they compose to
    interesting_codepoints, \* the cross-reference table (xref)
    decomposition_sequences,    \* the pool of decompositions (decomp_seq)
    decomposition_starts,   \* code point -> offset | (length - 1) << 14
    comp_seqs,      \* the pool of (second, composed) pairs (comp_seq)
    comp_map,       \* first code point -> the pair its group starts at
    emitted,        \* the ccc, decomp_idx and comp_idx maps of the dict `out`
    second,         \* the second argument of the runtime's compose
    collation_elements, \* parse_collation: key -> its collation elements
    ducet,          \* make_collation_element_table: what it emits
    key,            \* the key the runtime looks up in the DUCET tables
    found,          \* the records the runtime's walk of the key's bucket decoded
    codepoint,      \* the argument of an emitted accessor
    ret             \* what the accessor returned

vars == <<pc, table, dumped, out_map, direct, data, trans, exclusions,
         decomposition_map, composition_map, interesting_codepoints,
         decomposition_sequences, decomposition_starts, comp_seqs, comp_map, emitted,
         second, collation_elements, ducet, key, found, codepoint, ret>>

(***************************************************************************)
(* Bounds of the model.                                                    *)
(***************************************************************************)
MaxTableLen == 2        \* longest table handed to dump_table
TrieCodeSpace == 5      \* code points of the trie model, in place of 0x110000
TransCodeSpace == 4     \* code points of the translation model, likewise
MaxEntries == 2         \* most entries of a DUCET map
NormCodeSpace == 4      \* code points of the normalization model
PoolCodeSpace == 4      \* code points of the decomposition pool model

(***************************************************************************)
(* Python arithmetic.                                                      *)
(***************************************************************************)
Abs(n) == IF n < 0 THEN -n ELSE n

Max2(a, b) == IF a >= b THEN a ELSE b

Min2(a, b) == IF a <= b THEN a ELSE b

\* int.bit_length(): the bits of the absolute value
RECURSIVE bit_length(_)
bit_length(n) == IF n = 0 THEN 0 ELSE 1 + bit_length(Abs(n) \div 2)

\* x << n and x >> n, for x >= 0
shl(x, n) == x * (2 ^ n)

shr(x, n) == x \div (2 ^ n)

\* s[i], Python's indexing from 0
At(s, i) == s[i + 1]

\* s[a:b], Python's slice, cut at the end of s
Slice(s, a, b) == SubSeq(s, a + 1, Min2(b, Len(s)))

SeqMax(s) == CHOOSE x \in {s[i] : i \in 1..Len(s)} : \A i \in 1..Len(s) : s[i] <= x

SeqMin(s) == CHOOSE x \in {s[i] : i \in 1..Len(s)} : \A i \in 1..Len(s) : x <= s[i]

\* the sequences over S of a length in lo..hi
SeqsOf(S, lo, hi) == UNION {[1..n -> S] : n \in lo..hi}

(***************************************************************************)
(* The table serializer.                                                   *)
(***************************************************************************)
ByteWidths == <<1, 2, 4>>

\* the bits bytes_needed asks for
nbits_needed(xs) ==
    IF \E i \in 1..Len(xs) : xs[i] < 0
    THEN Max2(bit_length(SeqMax(xs)), bit_length(-1 - SeqMin(xs))) + 1
    ELSE bit_length(SeqMax(xs))

\* bytes_needed(xs): (prefix, nbytes). next() over (1, 2, 4) raises
\* StopIteration when no width has the bits: that is nbytes = 0 here.
bytes_needed(xs) ==
    LET prefix == IF \E i \in 1..Len(xs) : xs[i] < 0 THEN "" ELSE "u"
        nbits == nbits_needed(xs)
        ok == {i \in 1..Len(ByteWidths) : ByteWidths[i] * 8 >= nbits}
    IN  IF ok = {}
        THEN [prefix |-> prefix, nbytes |-> 0]
        ELSE [prefix |-> prefix,
              nbytes |-> ByteWidths[CHOOSE i \in ok : \A j \in ok : i <= j]]

\* dump_table(name, xs): the size in bytes and the declared C type
dump_table(xs) ==
    LET t == bytes_needed(xs)
    IN  [size |-> Len(xs) * t.nbytes, prefix |-> t.prefix, nbytes |-> t.nbytes]

(***************************************************************************)
(* The two-level trie packer.                                              *)
(***************************************************************************)
\* the id try_split gives a new chunk: len(table2) >> shift
chunk_id_unshifted(table2, shift) == Len(table2)

chunk_id(table2, shift) == shr(Len(table2), shift)

\* the loop of try_split, from index i on
RECURSIVE try_split_from(_, _, _, _, _, _)
try_split_from(arr, shift, i, table1, table2, chunks) ==
    IF i >= Len(arr)
    THEN [t1 |-> table1, t2 |-> table2, shift |-> shift]
    ELSE LET size == 2 ^ shift
             this_chunk == Slice(arr, i, i + size)
             new == this_chunk \notin DOMAIN chunks
             chunks2 == IF new
                        THEN chunks @@ (this_chunk :> chunk_id(table2, shift))
                        ELSE chunks
             table2b == IF new THEN table2 \o this_chunk ELSE table2
         IN  try_split_from(arr, shift, i + size,
                            Append(table1, chunks2[this_chunk]), table2b, chunks2)

try_split(arr, shift) == try_split_from(arr, shift, 0, <<>>, <<>>, <<>>)

\* the key split_array minimises
split_cost(ts) ==
    bytes_needed(ts.t1).nbytes * Len(ts.t1) + bytes_needed(ts.t2).nbytes * Len(ts.t2)

\* the shifts split_array tries: xrange(len(arr).bit_length())
split_shifts(arr) == 0..(bit_length(Len(arr)) - 1)

\* which of the tried shifts split_array keeps: min() keeps the first minimum
split_choice_last(arr) ==
    CHOOSE s \in split_shifts(arr) : \A r \in split_shifts(arr) : r <= s

split_choice(arr) ==
    CHOOSE s \in split_shifts(arr) :
        \A r \in split_shifts(arr) :
            \/ split_cost(try_split(arr, s)) < split_cost(try_split(arr, r))
            \/ /\ split_cost(try_split(arr, s)) = split_cost(try_split(arr, r))
               /\ s <= r

split_array(arr) == try_split(arr, split_choice(arr))

\* out_map[:max(i for i, v in enumerate(out_map) if v) + 1]
nonzero_indexes(arr) == {i \in 0..(Len(arr) - 1) : At(arr, i) # 0}

truncate(arr) ==
    Slice(arr, 0, (CHOOSE i \in nonzero_indexes(arr) :
                       \A j \in nonzero_indexes(arr) : j <= i) + 1)

\* make_direct_map, given the list out_map of its first statement. max() of
\* no index raises ValueError.
make_direct_map(values) ==
    IF nonzero_indexes(values) = {}
    THEN [status |-> "ValueError", t1 |-> <<>>, t2 |-> <<>>, shift |-> 0, cutoff |-> 0]
    ELSE LET cut == truncate(values)
             ts == split_array(cut)
         IN  [status |-> "ok", t1 |-> ts.t1, t2 |-> ts.t2, shift |-> ts.shift,
              cutoff |-> Len(cut)]

\* the index the emitted accessor reads in t2, for a code point below the cutoff
t2_index(m, c) == shl(At(m.t1, shr(c, m.shift)), m.shift) + (c % (2 ^ m.shift))

\* the values the emitted accessor may return: a read past the end of t2 (or of
\* t1) is undefined in C and may give any value
accessor_returns(m, c, anyval) ==
    IF c >= m.cutoff THEN {0}
    ELSE IF shr(c, m.shift) >= Len(m.t1) THEN anyval
    ELSE IF t2_index(m, c) >= Len(m.t2) THEN anyval
    ELSE {At(m.t2, t2_index(m, c))}

(***************************************************************************)
(* The translation map.                                                    *)
(***************************************************************************)
\* from_hex of an empty field
None == -1

\* lambda info: info.lowercase - info.codepoint if info.lowercase else 0
\* (a field that is None or 0 is false)
lowercase_offset(info, cp) ==
    IF info.lowercase = None \/ info.lowercase = 0 THEN 0 ELSE info.lowercase - cp

\* value_index_cache[value]: the index value_table holds value at
value_index(value_table, value) ==
    (CHOOSE i \in 1..Len(value_table) : value_table[i] = value) - 1

\* the loop of make_translation_map over the records, in the order `order`
RECURSIVE translation_loop(_, _, _, _, _)
translation_loop(records, order, k, translation_map, value_table) ==
    IF k > Len(order)
    THEN [map |-> translation_map, values |-> value_table]
    ELSE LET cp == order[k]
             value == lowercase_offset(records[cp], cp)
             cached == \E i \in 1..Len(value_table) : value_table[i] = value
             table2 == IF cached THEN value_table ELSE Append(value_table, value)
         IN  translation_loop(records, order, k + 1,
                 [translation_map EXCEPT ![cp + 1] = value_index(table2, value)],
                 table2)

\* make_translation_map("lowercase_offset", ...) over a code space of n code
\* points, data.iteritems() giving the records in the order `order`
make_translation_map(records, order, n) ==
    LET built == translation_loop(records, order, 1, [i \in 1..n |-> 0], <<>>)
    IN  IF nonzero_indexes(built.map) = {}
        THEN [status |-> "ValueError", values |-> built.values, t1 |-> <<>>,
              t2 |-> <<>>, shift |-> 0, cutoff |-> 0]
        ELSE LET cut == truncate(built.map)
                 ts == split_array(cut)
             IN  [status |-> "ok", values |-> built.values, t1 |-> ts.t1,
                  t2 |-> ts.t2, shift |-> ts.shift, cutoff |-> Len(cut)]

\* the emitted accessor: values[t2[(t1[c >> shift] << shift) + (c & mask)]]
translation_accessor(m, c) ==
    IF c >= m.cutoff THEN 0 ELSE At(m.values, At(m.t2, t2_index(m, c)))

\* the orders a dict over the keys S may be iterated in
Orders(S) ==
    {o \in [1..Cardinality(S) -> S] : \A i, j \in 1..Cardinality(S) : o[i] = o[j] => i = j}

(***************************************************************************)
(* The DUCET hash table builder.                                           *)
(***************************************************************************)
UNICODE_CODE_SPACE_BITS == 21

HASH_MULTIPLIER == 1031

DUCET_DATA_HIGH_BIT == 31

\* a | b and a & b, for a, b >= 0
RECURSIVE BitOr(_, _)
BitOr(a, b) ==
    IF a = 0 THEN b
    ELSE IF b = 0 THEN a
    ELSE Max2(a % 2, b % 2) + 2 * BitOr(a \div 2, b \div 2)

RECURSIVE BitAnd(_, _)
BitAnd(a, b) ==
    IF a = 0 \/ b = 0 THEN 0
    ELSE Min2(a % 2, b % 2) + 2 * BitAnd(a \div 2, b \div 2)

\* a word of ducet_data: its bit 31 and its bits 30..0
Word(b, l) == [bit31 |-> b, low |-> l]

\* get_level_1_elements(elements)
RECURSIVE get_level_1_elements(_)
get_level_1_elements(elements) ==
    IF elements = <<>> THEN <<>>
    ELSE (IF Head(elements)[1] # 0 THEN <<Head(elements)[1]>> ELSE <<>>)
         \o get_level_1_elements(Tail(elements))

level1_elements(ce) == [k \in DOMAIN ce |-> get_level_1_elements(ce[k])]

\* the order of Python's tuples
RECURSIVE TupleLess(_, _)
TupleLess(a, b) ==
    IF a = <<>> THEN b # <<>>
    ELSE IF b = <<>> THEN FALSE
    ELSE IF Head(a) # Head(b) THEN Head(a) < Head(b)
    ELSE TupleLess(Tail(a), Tail(b))

\* sorted(level1_elements.iteritems()): the keys in order (no two are equal)
RECURSIVE sorted_keys(_)
sorted_keys(S) ==
    IF S = {} THEN <<>>
    ELSE LET least == CHOOSE k \in S : \A j \in S : j = k \/ TupleLess(k, j)
         IN  <<least>> \o sorted_keys(S \ {least})

\* bucket(seq), the hash of a key
RECURSIVE bucket_from(_, _, _)
bucket_from(seq, out, BUCKETS) ==
    IF seq = <<>> THEN out
    ELSE bucket_from(Tail(seq), (out * HASH_MULTIPLIER + Head(seq)) % BUCKETS, BUCKETS)

bucket(seq, BUCKETS) == bucket_from(seq, 0, BUCKETS)

SetMax(S) == CHOOSE x \in S : \A y \in S : y <= x

\* header_word of a record
header_word(k, v, KEY_BITS, VALUE_BITS) ==
    BitOr(shl(Len(k), DUCET_DATA_HIGH_BIT - KEY_BITS),
          shl(Len(v), DUCET_DATA_HIGH_BIT - KEY_BITS - VALUE_BITS))

\* assert (header_word & ~(~0 << UNICODE_CODE_SPACE_BITS)) == 0
header_assert(h) == BitAnd(h, 2 ^ UNICODE_CODE_SPACE_BITS - 1) = 0

\* data = [ header_word | key[0] ] + list(key[1:]) + list(value)
record_words(k, v, KEY_BITS, VALUE_BITS) ==
    <<Word(FALSE, BitOr(header_word(k, v, KEY_BITS, VALUE_BITS), k[1]))>>
    \o [i \in 1..(Len(k) - 1) |-> Word(FALSE, k[i + 1])]
    \o [i \in 1..Len(v) |-> Word(FALSE, v[i])]

\* bucket_to_data[b]: the records of the keys of bucket b, in sorted order
RECURSIVE bucket_records(_, _, _, _, _, _)
bucket_records(l1, keys, b, BUCKETS, KEY_BITS, VALUE_BITS) ==
    IF keys = <<>> THEN <<>>
    ELSE (IF bucket(Head(keys), BUCKETS) = b
          THEN <<record_words(Head(keys), l1[Head(keys)], KEY_BITS, VALUE_BITS)>>
          ELSE <<>>)
         \o bucket_records(l1, Tail(keys), b, BUCKETS, KEY_BITS, VALUE_BITS)

RECURSIVE Flatten(_)
Flatten(recs) == IF recs = <<>> THEN <<>> ELSE Head(recs) \o Flatten(Tail(recs))

\* bucket_to_data[b][-1][0] |= (1 << DUCET_DATA_HIGH_BIT)
mark_last(recs) ==
    [recs EXCEPT ![Len(recs)] = [@ EXCEPT ![1] = Word(TRUE, @.low)]]

\* where an empty bucket points: the length ducet_data will have
empty_bucket_offset_so_far(data_array, data_array_len) == Len(data_array)

empty_bucket_offset(data_array, data_array_len) == data_array_len

\* the second loop over range(BUCKETS), from bucket b on
RECURSIVE ducet_layout(_, _, _, _, _, _)
ducet_layout(bucket_to_data, BUCKETS, b, data_array, bucket_to_offset, data_array_len) ==
    IF b >= BUCKETS
    THEN [data_array |-> data_array, bucket_to_offset |-> bucket_to_offset]
    ELSE IF bucket_to_data[b] # <<>>
    THEN ducet_layout(bucket_to_data, BUCKETS, b + 1,
                      data_array \o Flatten(mark_last(bucket_to_data[b])),
                      Append(bucket_to_offset, Len(data_array)), data_array_len)
    ELSE ducet_layout(bucket_to_data, BUCKETS, b + 1, data_array,
                      Append(bucket_to_offset,
                             empty_bucket_offset(data_array, data_array_len)),
                      data_array_len)

ducet_failed(status) ==
    [status |-> status, ducet_data |-> <<>>, ducet_bucket_indexes |-> <<>>,
     BUCKETS |-> 0, KEY_BITS |-> 0, VALUE_BITS |-> 0, longest_key |-> 0]

\* make_collation_element_table(collation_elements). max() of no entry and a
\* negative shift count raise ValueError; a failed assert raises AssertionError.
make_collation_element_table(ce) ==
    IF DOMAIN ce = {} THEN ducet_failed("ValueError")
    ELSE
    LET l1 == level1_elements(ce)
        longest_key == SetMax({Len(k) : k \in DOMAIN l1})
        longest_value == SetMax({Len(l1[k]) : k \in DOMAIN l1})
        KEY_BITS == bit_length(longest_key)
        VALUE_BITS == bit_length(longest_value)
        BUCKETS == Cardinality(DOMAIN l1)
        keys == sorted_keys(DOMAIN l1)
    IN  IF DUCET_DATA_HIGH_BIT - KEY_BITS - VALUE_BITS < 0
        THEN ducet_failed("ValueError")
        ELSE IF \E k \in DOMAIN l1 :
                   ~header_assert(header_word(k, l1[k], KEY_BITS, VALUE_BITS))
        THEN ducet_failed("AssertionError")
        ELSE
        LET bucket_to_data ==
                [b \in 0..(BUCKETS - 1) |->
                    bucket_records(l1, keys, b, BUCKETS, KEY_BITS, VALUE_BITS)]
            data_array_len == Len(Flatten(Flatten(
                [i \in 1..BUCKETS |-> bucket_to_data[i - 1]])))
            laid == ducet_layout(bucket_to_data, BUCKETS, 0, <<>>, <<>>, data_array_len)
        IN  IF Len(laid.data_array) # data_array_len
            THEN ducet_failed("AssertionError")
            ELSE [status |-> "ok", ducet_data |-> laid.data_array,
                  ducet_bucket_indexes |-> laid.bucket_to_offset,
                  BUCKETS |-> BUCKETS, KEY_BITS |-> KEY_BITS,
                  VALUE_BITS |-> VALUE_BITS, longest_key |-> longest_key]

(***************************************************************************)
(* The runtime's lookup in the DUCET tables: it reads the header fields by *)
(* the emitted DUCET_KEY_BITS and DUCET_VALUE_BITS.                        *)
(***************************************************************************)
\* a word of ducet_data; a read past its end is undefined and gives `beyond`
ducet_word(d, i, beyond) ==
    IF i < Len(d.ducet_data) THEN At(d.ducet_data, i) ELSE beyond

decoded_key_length(d, w) ==
    shr(w.low, DUCET_DATA_HIGH_BIT - d.KEY_BITS) % (2 ^ d.KEY_BITS)

decoded_value_length(d, w) ==
    shr(w.low, DUCET_DATA_HIGH_BIT - d.KEY_BITS - d.VALUE_BITS) % (2 ^ d.VALUE_BITS)

\* the record that starts at word i
decoded_record(d, i, beyond) ==
    LET w == ducet_word(d, i, beyond)
        k == decoded_key_length(d, w)
        v == decoded_value_length(d, w)
    IN  [key |-> [j \in 1..k |->
                    IF j = 1 THEN w.low % (2 ^ UNICODE_CODE_SPACE_BITS)
                    ELSE ducet_word(d, i + j - 1, beyond).low],
         value |-> [j \in 1..v |-> ducet_word(d, i + k + j - 1, beyond).low],
         last |-> w.bit31,
         next |-> i + k + v]

\* the records from word i to the one with bit 31 set; the walk is given up
\* (overrun) where it leaves ducet_data or stays on a record of no word
RECURSIVE ducet_walk(_, _, _, _)
ducet_walk(d, i, beyond, hits) ==
    LET r == decoded_record(d, i, beyond)
    IN  IF r.next > Len(d.ducet_data)
        THEN [hits |-> Append(hits, r), overrun |-> TRUE]
        ELSE IF r.last THEN [hits |-> Append(hits, r), overrun |-> FALSE]
        ELSE IF r.next = Len(d.ducet_data) \/ r.next = i
        THEN [hits |-> Append(hits, r), overrun |-> TRUE]
        ELSE ducet_walk(d, r.next, beyond, Append(hits, r))

\* the walk of the bucket of key `k`: a bucket whose index is the length of
\* ducet_data has no record
ducet_lookup(d, k, beyond) ==
    LET start == At(d.ducet_bucket_indexes, bucket(k, d.BUCKETS))
    IN  IF start >= Len(d.ducet_data)
        THEN [hits |-> <<>>, overrun |-> FALSE]
        ELSE ducet_walk(d, start, beyond, <<>>)

(***************************************************************************)
(* The decomposition and composition maps.                                 *)
(***************************************************************************)
\* recursive_decompose(data, pt)
RECURSIVE recursive_decompose(_, _)
recursive_decompose(records, pt) ==
    IF pt \in DOMAIN records /\ records[pt].dtype = "canonical"
    THEN Flatten([i \in 1..Len(records[pt].mapping) |->
                     recursive_decompose(records, records[pt].mapping[i])])
    ELSE <<pt>>

\* ccc.get(pt, 0)
ccc_of(records, pt) == IF pt \in DOMAIN records THEN records[pt].ccc ELSE 0

\* x put into a sorted list, behind the elements whose class is not greater
RECURSIVE insert_by_ccc(_, _, _)
insert_by_ccc(records, sorted, x) ==
    IF sorted = <<>> THEN <<x>>
    ELSE IF ccc_of(records, Head(sorted)) <= ccc_of(records, x)
    THEN <<Head(sorted)>> \o insert_by_ccc(records, Tail(sorted), x)
    ELSE <<x>> \o sorted

\* sorted(seq, key = lambda pt: ccc.get(pt, 0)): a stable sort
RECURSIVE sorted_by_ccc_from(_, _, _)
sorted_by_ccc_from(records, seq, sorted) ==
    IF seq = <<>> THEN sorted
    ELSE sorted_by_ccc_from(records, Tail(seq), insert_by_ccc(records, sorted, Head(seq)))

sorted_by_ccc(records, seq) == sorted_by_ccc_from(records, seq, <<>>)

\* the dict comprehension decomposition_map
make_decomposition_map(records) ==
    [pt \in {c \in DOMAIN records : records[c].dtype = "canonical"} |->
        sorted_by_ccc(records, recursive_decompose(records, pt))]

\* the code points whose record passes the filter of composition_map
composable(records, excl) ==
    {c \in DOMAIN records :
        /\ c \notin excl
        /\ records[c].dtype = "canonical"
        /\ Len(records[c].mapping) = 2
        /\ records[c].ccc = 0
        /\ ccc_of(records, records[c].mapping[1]) = 0}

\* the dicts composition_map may be: where two code points have the same
\* mapping, the one data.items() gives last stays
composition_maps(records, excl) ==
    LET pairs == {records[c].mapping : c \in composable(records, excl)}
    IN  {f \in [pairs -> composable(records, excl)] :
            \A pr \in pairs : records[f[pr]].mapping = pr}

SeqRange(q) == {q[i] : i \in 1..Len(q)}

\* sorted(S), for a set of code points
RECURSIVE sorted_set(_)
sorted_set(S) ==
    IF S = {} THEN <<>>
    ELSE LET least == CHOOSE x \in S : \A y \in S : x <= y
         IN  <<least>> \o sorted_set(S \ {least})

\* interesting_codepoints
make_interesting_codepoints(dm, cm) ==
    <<0>> \o sorted_set(
        UNION {{cp} \cup SeqRange(dm[cp]) : cp \in DOMAIN dm}
        \cup UNION {{pr[1], pr[2], cm[pr]} : pr \in DOMAIN cm})

\* interesting_codepoint_map[pt]: of two indexes of one code point the dict
\* keeps the later
interesting_codepoint_map(X, pt) ==
    CHOOSE i \in 0..(Len(X) - 1) :
        At(X, i) = pt /\ \A j \in 0..(Len(X) - 1) : At(X, j) = pt => j <= i

(***************************************************************************)
(* The decomposition pool.                                                 *)
(***************************************************************************)
OFFSET_BITS == 14

\* sublist_index(haystack, needle): the first index needle occurs at, or None
sublist_index_by_head(haystack, needle) ==
    LET at == {i \in 0..(Len(haystack) - Len(needle)) : At(haystack, i) = needle[1]}
    IN  IF at = {} THEN None ELSE CHOOSE i \in at : \A j \in at : i <= j

sublist_index(haystack, needle) ==
    LET n == Len(needle)
        at == {i \in 0..(Len(haystack) - n) : Slice(haystack, i, i + n) = needle}
    IN  IF at = {} THEN None ELSE CHOOSE i \in at : \A j \in at : i <= j

\* one pass of the loop over decomposition_map.iteritems(), for `cp`: the pool
\* and the packed start, and whether both asserts held
pack_decomposition(X, pool, seq) ==
    LET decomposition == [i \in 1..Len(seq) |-> interesting_codepoint_map(X, seq[i])]
        hit == sublist_index(pool, decomposition)
        idx == IF hit = None THEN Len(pool) ELSE hit
    IN  [pool |-> IF hit = None THEN pool \o decomposition ELSE pool,
         asserted |-> Len(decomposition) \in {1, 2, 3, 4} /\ idx < 2 ^ OFFSET_BITS,
         start |-> BitOr(idx, shl(Len(decomposition) - 1, OFFSET_BITS))]

(***************************************************************************)
(* The composition pool.                                                   *)
(***************************************************************************)
END_OF_GROUP == 32768

\* k2map[k1]: the (k2, v) of the entries whose first code point is k1
k2map(cm, k1) == {<<pr[2], cm[pr]>> : pr \in {q \in DOMAIN cm : q[1] = k1}}

\* the words of one group, its pairs written in the order `order`: the pair
\* set.pop() gave is written last, with bit 15 set in its first word
group_words(X, order) ==
    Flatten([i \in 1..Len(order) |->
        <<IF i = Len(order)
          THEN BitOr(interesting_codepoint_map(X, order[i][1]), END_OF_GROUP)
          ELSE interesting_codepoint_map(X, order[i][1]),
          interesting_codepoint_map(X, order[i][2])>>])

\* make_direct_map(name, lambda info: table.get(info.codepoint, 0)) over a
\* code space of n code points
direct_map_of(records, tbl, n) ==
    make_direct_map([i \in 1..n |->
        IF (i - 1) \in DOMAIN records /\ (i - 1) \in DOMAIN tbl THEN tbl[i - 1] ELSE 0])

\* the dict `out`, without its lower_offset entry: the ccc, decomp_idx and
\* comp_idx maps; the first ValueError ends the run
make_out(records, starts, cmap, n) ==
    LET c == make_direct_map([i \in 1..n |-> ccc_of(records, i - 1)])
        d == direct_map_of(records, starts, n)
        k == direct_map_of(records, cmap, n)
    IN  [status |-> IF c.status = "ok" /\ d.status = "ok" /\ k.status = "ok"
                    THEN "ok" ELSE "ValueError",
         ccc |-> c, decomp_idx |-> d, comp_idx |-> k]

(***************************************************************************)
(* The runtime's compose over the emitted comp_idx, comp_seq and xref.     *)
(***************************************************************************)
\* the scan of comp_seq from pair i for the second code point b
RECURSIVE compose_scan(_, _, _, _)
compose_scan(X, seqs, i, b) ==
    IF 2 * i + 1 >= Len(seqs) THEN None
    ELSE LET first == At(seqs, 2 * i)
         IN  IF At(X, first % END_OF_GROUP) = b THEN At(X, At(seqs, 2 * i + 1))
             ELSE IF first >= END_OF_GROUP THEN None
             ELSE compose_scan(X, seqs, i + 1, b)

\* compose(a, b): the code points it may return (None for no composition),
\* scanning from the pair comp_idx(a) gives
compose(m, X, seqs, a, b) ==
    {compose_scan(X, seqs, start, b) :
        start \in accessor_returns(m, a, 0..(Len(seqs) \div 2))}

(***************************************************************************)
(* Idle parts.                                                             *)
(***************************************************************************)
NoBytes == table = <<>> /\ dumped = <<>>

NoTrie == out_map = <<>> /\ direct = <<>>

NoLookup == codepoint = -1 /\ ret = 0

NoData == data = <<>>

NoTrans == trans = <<>>

NoNorm ==
    /\ exclusions = {} /\ decomposition_map = <<>> /\ composition_map = <<>>
    /\ interesting_codepoints = <<>> /\ decomposition_sequences = <<>>
    /\ decomposition_starts = <<>> /\ comp_seqs = <<>> /\ comp_map = <<>>
    /\ emitted = <<>> /\ second = -1

NoDucet == collation_elements = <<>> /\ ducet = <<>> /\ key = <<>> /\ found = <<>>

bytesVars == <<table, dumped>>

trieVars == <<out_map, direct>>

lookupVars == <<codepoint, ret>>

transVars == <<data, trans>>

ducetVars == <<collation_elements, ducet, key, found>>

normVars ==
    <<exclusions, decomposition_map, composition_map, interesting_codepoints,
      decomposition_sequences, decomposition_starts, comp_seqs, comp_map, emitted, second>>

(***************************************************************************)
(* SpecBytes: dump_table on a table of sample values.                      *)
(***************************************************************************)
\* values on both sides of every width's limits
WidthSamples ==
    {-32769, -32768, -129, -128, -1, 0, 1, 127, 128, 255, 256, 32767, 32768,
     65535, 65536}

InitBytes ==
    /\ pc = "start"
    /\ table \in SeqsOf(WidthSamples, 1, MaxTableLen)
    /\ dumped = <<>>
    /\ NoTrie /\ NoLookup /\ NoData /\ NoTrans /\ NoDucet /\ NoNorm

DumpTable ==
    /\ pc = "start"
    /\ dumped' = dump_table(table)
    /\ pc' = "dumped"
    /\ UNCHANGED <<table, trieVars, lookupVars, transVars, ducetVars, normVars>>

NextBytes == DumpTable

SpecBytes == InitBytes /\ [][NextBytes]_vars

\* x fits in a C integer of w bytes, signed or unsigned
Fits(x, signed, w) ==
    IF signed
    THEN IF x >= 0 THEN x \div (2 ^ (8 * w - 2)) < 2
                   ELSE (-1 - x) \div (2 ^ (8 * w - 2)) < 2
    ELSE x >= 0 /\ x \div (2 ^ (8 * w - 2)) < 4

AllFit(xs, signed, w) == \A i \in 1..Len(xs) : Fits(xs[i], signed, w)

\* C5: bytes_needed declares the table signed iff some value is negative and
\* chooses a width of 1, 2 or 4 bytes that holds every value, while no narrower
\* width of the three holds every value.
C5_NarrowestWidth ==
    pc = "dumped" =>
        LET signed == \E i \in 1..Len(table) : table[i] < 0
        IN  /\ (dumped.prefix = "") <=> signed
            /\ dumped.nbytes \in {1, 2, 4}
            /\ AllFit(table, signed, dumped.nbytes)
            /\ \A w \in {1, 2, 4} : w < dumped.nbytes => ~AllFit(table, signed, w)

(***************************************************************************)
(* SpecTrie: make_direct_map on an array of sample values, then the        *)
(* emitted accessor on a code point.                                       *)
(***************************************************************************)
TrieValues == {-1, 0, 1, 256}

InitTrie ==
    /\ pc = "start"
    /\ out_map \in [1..TrieCodeSpace -> TrieValues]
    /\ direct = <<>>
    /\ NoBytes /\ NoLookup /\ NoData /\ NoTrans /\ NoDucet /\ NoNorm

MakeDirectMap ==
    /\ pc = "start"
    /\ direct' = make_direct_map(out_map)
    /\ pc' = IF direct'.status = "ok" THEN "emitted" ELSE "ValueError"
    /\ UNCHANGED <<out_map, bytesVars, lookupVars, transVars, ducetVars, normVars>>

\* int32_t name(int32_t codepoint), on a code point of the code space or past it
DirectLookup ==
    /\ pc = "emitted"
    /\ \E c \in 0..(TrieCodeSpace + 1) :
        /\ codepoint' = c
        /\ ret' \in accessor_returns(direct, c, TrieValues)
    /\ pc' = "returned"
    /\ UNCHANGED <<out_map, direct, bytesVars, transVars, ducetVars, normVars>>

NextTrie == MakeDirectMap \/ DirectLookup

SpecTrie == InitTrie /\ [][NextTrie]_vars

\* C1: for the array V cut after its highest nonzero index to N elements,
\* T2[(T1[c >> shift] << shift) + (c & mask)] = V[c] for every c < N, also inside
\* a short final block, and the accessor returns 0 for every c >= N.
C1_TrieRoundTrip ==
    /\ pc \in {"emitted", "returned"} =>
        /\ direct.cutoff = Len(truncate(out_map))
        /\ \A c \in 0..(direct.cutoff - 1) :
            /\ shr(c, direct.shift) < Len(direct.t1)
            /\ t2_index(direct, c) < Len(direct.t2)
            /\ At(direct.t2, t2_index(direct, c)) = At(out_map, c)
    /\ pc = "returned" =>
        ret = IF codepoint < direct.cutoff THEN At(out_map, codepoint) ELSE 0

\* a code point of a short final block, whose block is not the first, read back
C1_Witness ==
    /\ pc = "returned"
    /\ direct.shift >= 1
    /\ direct.cutoff % (2 ^ direct.shift) # 0
    /\ codepoint < direct.cutoff
    /\ codepoint >= direct.cutoff - (direct.cutoff % (2 ^ direct.shift))
    /\ At(direct.t1, shr(codepoint, direct.shift)) >= 1
    /\ ret # 0

TransCodepoints == 0..(TransCodeSpace - 1)

\* the lowercase field of a record: empty, or a code point
TransRecords == [lowercase : {None} \cup TransCodepoints]

InitTrans ==
    /\ pc = "start"
    /\ \E present \in SUBSET TransCodepoints : data \in [present -> TransRecords]
    /\ trans = <<>>
    /\ NoBytes /\ NoTrie /\ NoLookup /\ NoDucet /\ NoNorm

MakeTranslationMap ==
    /\ pc = "start"
    /\ \E order \in Orders(DOMAIN data) :
        trans' = make_translation_map(data, order, TransCodeSpace)
    /\ pc' = IF trans'.status = "ok" THEN "emitted" ELSE "ValueError"
    /\ UNCHANGED <<data, bytesVars, trieVars, lookupVars, ducetVars, normVars>>

\* int32_t lowercase_offset(int32_t codepoint)
TransLookup ==
    /\ pc = "emitted"
    /\ \E c \in 0..TransCodeSpace :
        /\ codepoint' = c
        /\ ret' = translation_accessor(trans, c)
    /\ pc' = "returned"
    /\ UNCHANGED <<data, trans, bytesVars, trieVars, ducetVars, normVars>>

NextTrans == MakeTranslationMap \/ TransLookup

SpecTrans == InitTrans /\ [][NextTrans]_vars

\* C10: in whatever order make_translation_map iterates data, the accessor
\* returns translation_func(data[c]) for every code point c of data, and 0 for
\* every code point that is not in data or is at or above the cutoff: index 0
\* of the value table always denotes the value 0.
C10_TranslationAccessor ==
    pc = "returned" =>
        /\ At(trans.values, 0) = 0
        /\ codepoint \in DOMAIN data /\ codepoint < trans.cutoff =>
               ret = lowercase_offset(data[codepoint], codepoint)
        /\ codepoint \notin DOMAIN data => ret = 0
        /\ codepoint >= trans.cutoff => ret = 0

(***************************************************************************)
(* SpecDucet: make_collation_element_table on a map of at most MaxEntries  *)
(* sample keys, then the runtime's lookup of a key.                        *)
(***************************************************************************)
\* U+100000, a code point with bit 20 set
HighCodepoint == 2 ^ 20

\* a key of 2^5 code points and a value of 2^4 weights: KEY_BITS = 6 and
\* VALUE_BITS = 5
LongKey == [i \in 1..(2 ^ 5) |-> HighCodepoint]

LongElements == [i \in 1..(2 ^ 4) |-> <<7, 32>>]

DucetKeys == {<<1>>, <<3>>, <<1, 3>>, <<HighCodepoint>>, LongKey}

\* collation elements [.w1.w2]: ignorable at level 1, one weight, two weights
\* around an ignorable element, and the long value
DucetElements ==
    {<< <<0, 32>> >>, << <<7, 32>> >>, << <<7, 32>>, <<0, 33>>, <<9, 32>> >>,
     LongElements}

\* the keys the runtime looks up: the sample keys and one that no map holds
LookupKeys == DucetKeys \cup {<<3, 1>>}

\* what a read past the end of ducet_data may give
BeyondWords == {Word(FALSE, 0), Word(TRUE, 7)}

InitDucet ==
    /\ pc = "start"
    /\ \E S \in SUBSET DucetKeys :
        /\ Cardinality(S) <= MaxEntries
        /\ collation_elements \in [S -> DucetElements]
    /\ ducet = <<>> /\ key = <<>> /\ found = <<>>
    /\ NoBytes /\ NoTrie /\ NoLookup /\ NoData /\ NoTrans /\ NoNorm

MakeCollationElementTable ==
    /\ pc = "start"
    /\ ducet' = make_collation_element_table(collation_elements)
    /\ pc' = IF ducet'.status = "ok" THEN "built" ELSE ducet'.status
    /\ UNCHANGED <<collation_elements, key, found, bytesVars, trieVars, transVars,
                   lookupVars, normVars>>

DucetLookup ==
    /\ pc = "built"
    /\ \E k \in LookupKeys, beyond \in BeyondWords :
        /\ key' = k
        /\ found' = ducet_lookup(ducet, k, beyond)
    /\ pc' = "looked"
    /\ UNCHANGED <<collation_elements, ducet, bytesVars, trieVars, transVars,
                   lookupVars, normVars>>

NextDucet == MakeCollationElementTable \/ DucetLookup

SpecDucet == InitDucet /\ [][NextDucet]_vars

\* C2: for every key K of a built map M, the walk of K's bucket decodes exactly
\* one record whose key is K, and its value is the level-1 weights M[K]; for
\* every key that M does not hold, the walk decodes no record with that key.
C2_DucetLookup ==
    pc = "looked" =>
        LET M == level1_elements(collation_elements)
            matches == {i \in 1..Len(found.hits) : found.hits[i].key = key}
        IN  /\ ~found.overrun
            /\ key \in DOMAIN M =>
                   /\ Cardinality(matches) = 1
                   /\ \A i \in matches : found.hits[i].value = M[key]
            /\ key \notin DOMAIN M => matches = {}

\* bucket b of the built table holds no key
bucket_empty(b) ==
    \A k \in DOMAIN collation_elements : bucket(k, ducet.BUCKETS) # b

\* C7, as amended: the indexes of the buckets that hold a record increase
\* strictly with the bucket and lie below the length of ducet_data, and the
\* index of every empty bucket is the length of ducet_data.
C7_BucketIndexes ==
    pc = "built" =>
        LET off == ducet.ducet_bucket_indexes
            B == 0..(ducet.BUCKETS - 1)
        IN  /\ Len(off) = ducet.BUCKETS
            /\ \A b \in B : bucket_empty(b) => At(off, b) = Len(ducet.ducet_data)
            /\ \A b \in B : ~bucket_empty(b) => At(off, b) < Len(ducet.ducet_data)
            /\ \A b, c \in B :
                   b < c /\ ~bucket_empty(b) /\ ~bucket_empty(c) => At(off, b) < At(off, c)

\* a table with an empty bucket right before a bucket that holds a record
C7_Witness ==
    /\ pc = "built"
    /\ \E b \in 0..(ducet.BUCKETS - 2) : bucket_empty(b) /\ ~bucket_empty(b + 1)

\* C7, as claimed: ducet_bucket_indexes[b] <= ducet_bucket_indexes[b + 1] for
\* every bucket b below BUCKETS - 1.
C7_NonDecreasing ==
    pc = "built" =>
        \A b \in 0..(ducet.BUCKETS - 2) :
            At(ducet.ducet_bucket_indexes, b) <= At(ducet.ducet_bucket_indexes, b + 1)

\* C9: the builder stops on a failed assertion, with no ducet_data, for every
\* map whose KEY_BITS + VALUE_BITS exceeds 10; when it completes, the length
\* fields of every header word lie within bits 30..21.
C9_BitBudget ==
    /\ pc # "start" /\ DOMAIN collation_elements # {} =>
        LET M == level1_elements(collation_elements)
            bits == bit_length(SetMax({Len(k) : k \in DOMAIN M}))
                    + bit_length(SetMax({Len(M[k]) : k \in DOMAIN M}))
        IN  bits > DUCET_DATA_HIGH_BIT - UNICODE_CODE_SPACE_BITS =>
                pc = "AssertionError" /\ ducet.ducet_data = <<>>
    /\ pc \in {"built", "looked"} =>
        ducet.KEY_BITS + ducet.VALUE_BITS
            <= DUCET_DATA_HIGH_BIT - UNICODE_CODE_SPACE_BITS
(***************************************************************************)
(* The normalization tables: the module body from parse_data to the dict   *)
(* `out`.                                                                  *)
(***************************************************************************)
\* the decompositions a record of code point c may have: none, a canonical
\* mapping (in UnicodeData.txt one code point or a pair) to lesser code
\* points, or a compatibility mapping
Decompositions(c, compat) ==
    {[dtype |-> "none", mapping |-> <<>>]}
    \cup {[dtype |-> "canonical", mapping |-> <<a>>] : a \in 0..(c - 1)}
    \cup {[dtype |-> "canonical", mapping |-> <<a, b>>] : a \in 0..(c - 1), b \in 0..(c - 1)}
    \cup {[dtype |-> "<compat>", mapping |-> <<a>>] : a \in (0..(c - 1)) \cap compat}

\* the records of code point c, its class one of classes[c]
Records(c, classes, compat) ==
    {[ccc |-> x, dtype |-> d.dtype, mapping |-> d.mapping] :
        x \in classes[c], d \in Decompositions(c, compat)}

\* the data dicts over the code points below n; with `sparse`, a code point
\* may have no record
RECURSIVE DataSets(_, _, _, _)
DataSets(n, classes, compat, sparse) ==
    IF n = 0 THEN {<<>>}
    ELSE LET less == DataSets(n - 1, classes, compat, sparse)
         IN  {f @@ ((n - 1) :> r) : f \in less, r \in Records(n - 1, classes, compat)}
             \cup (IF sparse THEN less ELSE {})

NormIdle ==
    /\ decomposition_map = <<>> /\ composition_map = <<>>
    /\ interesting_codepoints = <<>> /\ decomposition_sequences = <<>>
    /\ decomposition_starts = <<>> /\ comp_seqs = <<>> /\ comp_map = <<>>
    /\ emitted = <<>> /\ second = -1
    /\ trans = <<>>
    /\ NoBytes /\ NoTrie /\ NoLookup /\ NoDucet

\* decomposition_map, composition_map and interesting_codepoints, and the
\* empty pools
BuildMaps ==
    /\ pc = "start"
    /\ decomposition_map' = make_decomposition_map(data)
    /\ composition_map' \in composition_maps(data, exclusions)
    /\ interesting_codepoints' =
        make_interesting_codepoints(decomposition_map', composition_map')
    /\ decomposition_sequences' = <<0>>
    /\ decomposition_starts' = <<>>
    /\ comp_seqs' = <<>>
    /\ comp_map' = <<>>
    /\ pc' = "packing"
    /\ UNCHANGED <<data, exclusions, emitted, second, trans, bytesVars, trieVars,
                   lookupVars, ducetVars>>

\* one pass of the loop over decomposition_map.iteritems(), which gives the
\* code points in any order
PackDecomposition ==
    /\ pc = "packing"
    /\ \E cp \in DOMAIN decomposition_map \ DOMAIN decomposition_starts :
        LET packed == pack_decomposition(interesting_codepoints,
                                         decomposition_sequences, decomposition_map[cp])
        IN  /\ decomposition_sequences' = packed.pool
            /\ IF packed.asserted
               THEN /\ decomposition_starts' = decomposition_starts @@ (cp :> packed.start)
                    /\ pc' = "packing"
               ELSE /\ decomposition_starts' = decomposition_starts
                    /\ pc' = "AssertionError"
    /\ UNCHANGED <<data, exclusions, decomposition_map, composition_map,
                   interesting_codepoints, comp_seqs, comp_map, emitted, second, trans,
                   bytesVars, trieVars, lookupVars, ducetVars>>

\* one pass of the loop over k2map.iteritems(), which gives the first code
\* points in any order, and k2vs.pop() and the loop over k2vs the pairs of a
\* group in any order
PackComposition ==
    /\ pc = "packing"
    /\ DOMAIN decomposition_starts = DOMAIN decomposition_map
    /\ \E k1 \in {pr[1] : pr \in DOMAIN composition_map} \ DOMAIN comp_map :
        \E order \in Orders(k2map(composition_map, k1)) :
            /\ comp_map' = comp_map @@ (k1 :> (Len(comp_seqs) \div 2))
            /\ comp_seqs' = comp_seqs \o group_words(interesting_codepoints, order)
    /\ UNCHANGED <<pc, data, exclusions, decomposition_map, composition_map,
                   interesting_codepoints, decomposition_sequences, decomposition_starts,
                   emitted, second, trans, bytesVars, trieVars, lookupVars, ducetVars>>

\* the ccc, decomp_idx and comp_idx entries of the dict `out`
Emit ==
    /\ pc = "packing"
    /\ DOMAIN decomposition_starts = DOMAIN decomposition_map
    /\ DOMAIN comp_map = {pr[1] : pr \in DOMAIN composition_map}
    /\ emitted' = make_out(data, decomposition_starts, comp_map, NormCodeSpace)
    /\ pc' = IF emitted'.status = "ok" THEN "emitted" ELSE "ValueError"
    /\ UNCHANGED <<data, exclusions, decomposition_map, composition_map,
                   interesting_codepoints, decomposition_sequences, decomposition_starts,
                   comp_seqs, comp_map, second, trans, bytesVars, trieVars, lookupVars,
                   ducetVars>>

\* the runtime's compose(codepoint, second)
Compose ==
    /\ pc = "emitted"
    /\ \E a \in 0..(NormCodeSpace - 1), b \in 0..(NormCodeSpace - 1) :
        /\ codepoint' = a
        /\ second' = b
        /\ ret' \in compose(emitted.comp_idx, interesting_codepoints, comp_seqs, a, b)
    /\ pc' = "composed"
    /\ UNCHANGED <<data, exclusions, decomposition_map, composition_map,
                   interesting_codepoints, decomposition_sequences, decomposition_starts,
                   comp_seqs, comp_map, emitted, trans, bytesVars, trieVars, ducetVars>>

\* the maps, over records of three classes, with and without a record
InitDecomp ==
    /\ pc = "start"
    /\ data \in DataSets(NormCodeSpace, [c \in 0..(NormCodeSpace - 1) |-> {0, 220, 230}], {0}, TRUE)
    /\ exclusions = {}
    /\ NormIdle

NextDecomp == BuildMaps

SpecDecomp == InitDecomp /\ [][NextDecomp]_vars

\* the decomposition pool
InitPool ==
    /\ pc = "start"
    /\ data \in DataSets(PoolCodeSpace,
                        [c \in 0..(PoolCodeSpace - 1) |-> IF c = 0 THEN {0, 230} ELSE {0}],
                        {}, FALSE)
    /\ exclusions = {}
    /\ NormIdle

NextPool == BuildMaps \/ PackDecomposition

SpecPool == InitPool /\ [][NextPool]_vars

\* the whole of it, to the runtime's compose
InitNorm ==
    /\ pc = "start"
    /\ data \in DataSets(NormCodeSpace, [c \in 0..(NormCodeSpace - 1) |-> {0, 230}], {}, FALSE)
    /\ exclusions \in SUBSET {NormCodeSpace - 1}
    /\ NormIdle

NextNorm == BuildMaps \/ PackDecomposition \/ PackComposition \/ Emit \/ Compose

SpecNorm == InitNorm /\ [][NextNorm]_vars

\* the expansion of a code point reordered as canonical ordering has it: an
\* element of class 0 stays, each maximal run of elements of a nonzero class
\* is sorted by class, the order kept among equal classes
RECURSIVE canonical_reorder(_, _)
canonical_reorder(records, seq) ==
    IF seq = <<>> THEN <<>>
    ELSE IF ccc_of(records, Head(seq)) = 0
    THEN <<Head(seq)>> \o canonical_reorder(records, Tail(seq))
    ELSE LET starters == {i \in 1..Len(seq) : ccc_of(records, seq[i]) = 0}
             run == IF starters = {} THEN Len(seq)
                    ELSE (CHOOSE i \in starters : \A j \in starters : i <= j) - 1
         IN  sorted_by_ccc(records, SubSeq(seq, 1, run))
             \o canonical_reorder(records, SubSeq(seq, run + 1, Len(seq)))

\* C8: for every code point with a canonical decomposition, the sequence in
\* decomposition_map is its recursive expansion with every element of class 0
\* in the place it had and only each maximal run of elements of a nonzero
\* class sorted ascending by class, the expansion's order kept among equals.
C8_CanonicalReordering ==
    pc = "packing" =>
        \A c \in DOMAIN decomposition_map :
            decomposition_map[c] = canonical_reorder(data, recursive_decompose(data, c))

\* the window of the pool a packed start names, mapped back through X
pool_window(X, pool, start) ==
    [j \in 1..(start \div (2 ^ OFFSET_BITS) + 1) |->
        At(X, At(pool, (start % (2 ^ OFFSET_BITS)) + j - 1))]

\* C4: in whatever order the code points are packed, and after every pass of
\* the loop, the packed start of each code point packed so far is nonzero, its
\* low 14 bits are an offset of at least 1, its top 2 bits are the length
\* less 1, and the window they name lies in the pool and, mapped back through
\* the interesting code points, is the code point's decomposition.
C4_PoolRoundTrip ==
    \A c \in DOMAIN decomposition_starts :
        LET start == decomposition_starts[c]
            o == start % (2 ^ OFFSET_BITS)
            L == start \div (2 ^ OFFSET_BITS) + 1
        IN  /\ c \in DOMAIN decomposition_map
            /\ start # 0
            /\ o >= 1
            /\ L = Len(decomposition_map[c])
            /\ L <= 4
            /\ o + L <= Len(decomposition_sequences)
            /\ pool_window(interesting_codepoints, decomposition_sequences, start)
                = decomposition_map[c]

\* every code point is packed, and a decomposition of two code points lies in
\* the window of a longer one that was packed before or after it
C4_Witness ==
    /\ pc = "packing"
    /\ DOMAIN decomposition_starts = DOMAIN decomposition_map
    /\ \E c \in DOMAIN decomposition_starts, d \in DOMAIN decomposition_starts :
        /\ Len(decomposition_map[c]) = 2
        /\ Len(decomposition_map[d]) > 2
        /\ decomposition_starts[d] % (2 ^ OFFSET_BITS)
            <= decomposition_starts[c] % (2 ^ OFFSET_BITS)
        /\ (decomposition_starts[c] % (2 ^ OFFSET_BITS)) + 2
            <= (decomposition_starts[d] % (2 ^ OFFSET_BITS)) + Len(decomposition_map[d])
        /\ pool_window(interesting_codepoints, decomposition_sequences,
                       decomposition_starts[c]) = decomposition_map[c]

\* C3: compose(A, B), read through comp_idx, comp_seq and xref, is C for
\* every (A, B) -> C of the composition map, and None for every pair that is
\* not in the map, whether or not A is the first code point of an entry.
C3_Compose ==
    pc = "composed" =>
        ret = IF <<codepoint, second>> \in DOMAIN composition_map
              THEN composition_map[<<codepoint, second>>]
              ELSE None


=============================================================================
